---- MODULE Spec2Model ----
(***************************************************************************)
(* Model of .github/scripts/update-readme.py: the script that scans the    *)
(* release folders, loads one YAML metadata file per folder and rewrites   *)
(* releases/README.md with a Markdown table.                               *)
(*                                                                         *)
(* Python str objects are sequences of one-character strings, so that      *)
(* concatenation, join, len, endswith, str() and sorted() are computed.    *)
(* Python values are tagged records (str / int / the raised TypeError).    *)
(***************************************************************************)
EXTENDS Integers, Sequences, FiniteSets, TLC

(* ---------------------------- bounds ---------------------------------- *)

\* most files present in the release folders altogether
MaxFiles == 2
\* most invocations of the script in one behaviour
MaxRuns == 2

(* ------------------------- string literals ---------------------------- *)

S_Description == <<"D", "e", "s", "c", "r", "i", "p", "t", "i", "o", "n">>
S_Version == <<"V", "e", "r", "s", "i", "o", "n">>
S_Language == <<"L", "a", "n", "g", "u", "a", "g", "e">>
S_Creator == <<"C", "r", "e", "a", "t", "o", "r">>
S_Editor == <<"E", "d", "i", "t", "o", "r">>
S_Status == <<"S", "t", "a", "t", "u", "s">>
S_FolderName == <<"F", "o", "l", "d", "e", "r", " ", "N", "a", "m", "e">>
S_Title == <<"#", " ", "R", "e", "l", "e", "a", "s", "e", "s", " ", " ", "\n">>
S_Open == <<"|", " ">>
S_Sep == <<" ", "|", " ">>
S_Close == <<" ", "|", "\n">>
S_Br == <<"<", "b", "r", ">">>
S_WebEditor == <<"<", "b", "r", ">", "[", "W", "e", "b", " ", "e", "d", "i", "t", "o", "r", "]", "(">>
S_Paren == <<")">>
S_Dash == <<"-">>
S_yaml == <<".", "y", "a", "m", "l">>
S_yml == <<".", "y", "m", "l">>
S_README == <<"R", "E", "A", "D", "M", "E", ".", "m", "d">>

(* --------------------------- Python values ---------------------------- *)

StrObj(s) == [ty |-> "str", s |-> s, n |-> 0]
IntObj(n) == [ty |-> "int", s |-> <<>>, n |-> n]
TypeError == [ty |-> "err", s |-> <<>>, n |-> 0]

EmptyDict == <<>>

\* d.get(k, default)
Get(d, k, default) == IF k \in DOMAIN d THEN d[k] ELSE default

\* dict.update(other)
Update(d, other) ==
    [k \in (DOMAIN d) \cup (DOMAIN other) |->
        IF k \in DOMAIN other THEN other[k] ELSE d[k]]

Digit(n) ==
    CASE n = 0 -> "0" [] n = 1 -> "1" [] n = 2 -> "2" [] n = 3 -> "3"
      [] n = 4 -> "4" [] n = 5 -> "5" [] n = 6 -> "6" [] n = 7 -> "7"
      [] n = 8 -> "8" [] n = 9 -> "9"

RECURSIVE Digits(_)
Digits(n) == IF n < 10 THEN <<Digit(n)>> ELSE Digits(n \div 10) \o <<Digit(n % 10)>>

\* str(v)
PyStr(v) ==
    CASE v.ty = "str" -> v
      [] v.ty = "int" -> StrObj(IF v.n < 0 THEN <<"-">> \o Digits(-v.n) ELSE Digits(v.n))
      [] OTHER -> TypeError

\* a + b
PyAdd(a, b) ==
    CASE a.ty = "str" /\ b.ty = "str" -> StrObj(a.s \o b.s)
      [] a.ty = "int" /\ b.ty = "int" -> IntObj(a.n + b.n)
      [] OTHER -> TypeError

\* s.endswith(suffix)
EndsWith(s, suffix) ==
    /\ Len(s) >= Len(suffix)
    /\ SubSeq(s, Len(s) - Len(suffix) + 1, Len(s)) = suffix

\* sep.join(strs): TypeError when an item is not a str
RECURSIVE Join(_, _)
Join(sep, vals) ==
    IF Len(vals) = 0 THEN StrObj(<<>>)
    ELSE IF Len(vals) = 1 THEN PyAdd(StrObj(<<>>), vals[1])
    ELSE PyAdd(PyAdd(Join(sep, SubSeq(vals, 1, Len(vals) - 1)), StrObj(sep)), vals[Len(vals)])

\* '-' * n
RECURSIVE Repeat(_, _)
Repeat(s, n) == IF n <= 0 THEN <<>> ELSE s \o Repeat(s, n - 1)

CodePoint(c) ==
    CASE c = "B" -> 66 [] c = "a" -> 97 [] c = "b" -> 98 [] OTHER -> 0

\* s < t for str objects
RECURSIVE StrLess(_, _)
StrLess(s, t) ==
    IF Len(t) = 0 THEN FALSE
    ELSE IF Len(s) = 0 THEN TRUE
    ELSE IF CodePoint(s[1]) # CodePoint(t[1]) THEN CodePoint(s[1]) < CodePoint(t[1])
    ELSE StrLess(Tail(s), Tail(t))

RECURSIVE Insert(_, _)
Insert(x, sorted) ==
    IF Len(sorted) = 0 THEN <<x>>
    ELSE IF StrLess(sorted[1], x) THEN <<sorted[1]>> \o Insert(x, Tail(sorted))
    ELSE <<x>> \o sorted

\* sorted(strs)
RECURSIVE Sorted(_)
Sorted(strs) == IF Len(strs) = 0 THEN <<>> ELSE Insert(strs[1], Sorted(Tail(strs)))

(* ----------------------- the files on disk ----------------------------- *)

N_x == <<"x", ".", "y", "a", "m", "l">>
N_y == <<"y", ".", "y", "m", "l">>
N_z == <<"z", ".", "y", "m", "l">>
N_n == <<"n", ".", "t", "x", "t">>
N_b == <<"b", ".", "y", "a", "m", "l">>
N_e == <<"e", ".", "y", "m", "l">>
N_d == <<"d", ".", "y", "a", "m", "l">>
S_Foo == <<"F", "o", "o">>

\* what yaml.safe_load returns for a file: a mapping, None for an empty
\* document, or a raised yaml.YAMLError
Mapping(m) == [kind |-> "map", map |-> m]
NoneDoc == [kind |-> "none", map |-> EmptyDict]
YAMLError == [kind |-> "error", map |-> EmptyDict]

\* the files a release folder may hold, by name
SafeLoad(name) ==
    CASE name = N_x -> Mapping((S_Description :> StrObj(<<"A">>)) @@ (S_Version :> IntObj(2))
                               @@ (S_Language :> StrObj(<<"G", "o">>)))
      [] name = N_y -> Mapping((S_Version :> StrObj(<<"1", ".", "0">>)) @@ (S_Status :> StrObj(<<"s">>))
                               @@ (S_Creator :> StrObj(<<"X">>)) @@ (S_Editor :> StrObj(<<"u">>))
                               @@ (S_Foo :> StrObj(<<"z">>)))
      [] name = N_z -> Mapping((S_Description :> StrObj(<<"B">>)) @@ (S_Editor :> StrObj(<<"e">>))
                               @@ (S_Version :> IntObj(10)) @@ (S_Status :> StrObj(<<"t">>)))
      [] name = N_n -> Mapping(S_Language :> StrObj(<<"C">>))
      [] name = N_b -> YAMLError
      [] name = N_e -> NoneDoc
      [] name = N_d -> Mapping(S_Description :> IntObj(5))

FileNames == {N_x, N_y, N_z, N_n, N_b, N_e, N_d}
FolderNames == {<<"a">>, <<"a", "b">>, <<"B">>}

\* content of README.md before the first run, when there is one
OldReadme == <<<<"o", "l", "d", "\n">>>>
NoFile == [exists |-> FALSE, lines |-> <<>>]
File(lines) == [exists |-> TRUE, lines |-> lines]

(* ------------------------------ state --------------------------------- *)

VARIABLES
    base_ok,        \* the base folder 'releases' exists and can be listed
    releases,       \* folder name -> names of the files in that folder
    readme,         \* releases/README.md
    pc,             \* position of the script: start, loop, files, done, error
    err,            \* the exception that ended the run
    todo,           \* entries of os.listdir(base_folder) not yet iterated
    folder,         \* main: folder
    files_todo,     \* entries of os.listdir(folder_path) not yet iterated
    scanned,        \* entries of the folder iterated so far, in order
    data,           \* main: data
    folders_data,   \* main: folders_data, a dict in insertion order
    table,          \* update_readme: headers and the row lists, as joined
    runs,           \* invocations of the script so far
    readme_before,  \* README.md as it was when the current run started
    prev_out,       \* README.md as the previous successful run left it
    read_log        \* <<folder, file>> for each read_data call of this run

vars == <<base_ok, releases, readme, pc, err, todo, folder, files_todo, scanned,
          data, folders_data, table, runs, readme_before, prev_out, read_log>>

(* ------------------------ insertion-ordered dict ----------------------- *)

\* list(d.keys())
Keys(d) == [i \in 1..Len(d) |-> d[i].key]

HasKey(d, k) == \E i \in 1..Len(d) : d[i].key = k

\* d[k]
Lookup(d, k) == d[CHOOSE i \in 1..Len(d) : d[i].key = k].val

\* d[k] = v
DictSet(d, k, v) ==
    IF HasKey(d, k)
    THEN [i \in 1..Len(d) |-> IF d[i].key = k THEN [key |-> k, val |-> v] ELSE d[i]]
    ELSE Append(d, [key |-> k, val |-> v])

(* ---------------------------- update_readme --------------------------- *)

desired_order == <<S_Description, S_Version, S_Language, S_Creator>>

\* the members of sorted(all_keys); only membership is used afterwards
all_keys(fd) == UNION {DOMAIN fd[i].val : i \in 1..Len(fd)}

\* every key found becomes a column, in sorted order
ordered_keys_unfiltered(fd) ==
    SelectSeq(<<S_Creator, S_Description, S_Editor, S_Foo, S_Language, S_Status, S_Version>>,
              LAMBDA key : key \in all_keys(fd))

ordered_keys(fd) == SelectSeq(desired_order, LAMBDA key : key \in all_keys(fd))

headers(fd) == <<S_FolderName>> \o ordered_keys(fd)

StrObjs(strs) == [i \in 1..Len(strs) |-> StrObj(strs[i])]

\* '| ' + ' | '.join(cells) + ' |\n'
TableLine(cells) == PyAdd(PyAdd(StrObj(S_Open), Join(S_Sep, cells)), StrObj(S_Close))

header_line(fd) == TableLine(StrObjs(headers(fd)))

divider_line(fd) ==
    TableLine([i \in 1..Len(headers(fd)) |-> StrObj(Repeat(S_Dash, Len(headers(fd)[i])))])

\* the folders in the order the dict holds them
sorted_folders_unsorted(fd) == Keys(fd)

sorted_folders(fd) == Sorted(Keys(fd))

\* the link is appended whether or not there is an Editor key
descr_unconditional(d) ==
    PyAdd(Get(d, S_Description, StrObj(<<>>)),
          PyAdd(PyAdd(StrObj(S_WebEditor), Get(d, S_Editor, StrObj(<<>>))), StrObj(S_Paren)))

descr(d) ==
    IF S_Editor \in DOMAIN d
    THEN PyAdd(Get(d, S_Description, StrObj(<<>>)),
               PyAdd(PyAdd(StrObj(S_WebEditor), Get(d, S_Editor, StrObj(<<>>))), StrObj(S_Paren)))
    ELSE Get(d, S_Description, StrObj(<<>>))

\* the status segment is appended whether or not there is a Status key
vers_unconditional(d) ==
    PyAdd(PyStr(Get(d, S_Version, StrObj(<<>>))),
          PyAdd(StrObj(S_Br), Get(d, S_Status, StrObj(<<>>))))

vers(d) ==
    IF S_Status \in DOMAIN d
    THEN PyAdd(PyStr(Get(d, S_Version, StrObj(<<>>))),
               PyAdd(StrObj(S_Br), Get(d, S_Status, StrObj(<<>>))))
    ELSE PyStr(Get(d, S_Version, StrObj(<<>>)))

row(f, d) ==
    <<StrObj(f), descr(d), vers(d),
      Get(d, S_Language, StrObj(<<>>)), Get(d, S_Creator, StrObj(<<>>))>>

\* the row lists, one per folder of sorted_folders
rows(fd) ==
    [i \in 1..Len(sorted_folders(fd)) |->
        row(sorted_folders(fd)[i], Lookup(fd, sorted_folders(fd)[i]))]

new_table(fd) ==
    <<header_line(fd), divider_line(fd)>> \o [i \in 1..Len(rows(fd)) |-> TableLine(rows(fd)[i])]

\* a statement of the row loop raises TypeError, before the file is opened
Raises(fd) ==
    \E i \in 1..Len(rows(fd)) :
        \/ \E j \in 1..Len(rows(fd)[i]) : rows(fd)[i][j].ty = "err"
        \/ TableLine(rows(fd)[i]).ty = "err"

\* open(readme_path, 'w'); write(title); writelines(new_table)
WriteFile(old, lines) == File(lines)

(* -------------------------------- main -------------------------------- *)

\* every entry of the folder is taken for a metadata file
IsMetadata_any(file) == TRUE

\* file.endswith('.yaml') or file.endswith('.yml')
IsMetadata(file) == EndsWith(file, S_yaml) \/ EndsWith(file, S_yml)

\* os.path.isdir(folder_path)
isdir(entry) == entry \in DOMAIN releases

\* os.listdir(base_folder), as a set: the order of iteration is any order
ListBase == (DOMAIN releases) \cup (IF readme.exists THEN {S_README} ELSE {})

\* read_data(file_path)
read_data(file) == SafeLoad(file)

\* no break: the scan goes on after a metadata file was read
AfterBreak_continue(rest) == rest

\* break: the entries not yet iterated are abandoned
AfterBreak(rest) == {}

NumFiles(rel) ==
    LET RECURSIVE Sum(_)
        Sum(D) == IF D = {} THEN 0
                  ELSE LET f == CHOOSE f \in D : TRUE
                       IN Cardinality(rel[f]) + Sum(D \ {f})
    IN Sum(DOMAIN rel)

Filesystems ==
    LET FileSets == {F \in SUBSET FileNames : Cardinality(F) <= MaxFiles}
    IN UNION {{rel \in [D -> FileSets] : NumFiles(rel) <= MaxFiles} : D \in SUBSET FolderNames}

Init ==
    /\ base_ok \in BOOLEAN
    /\ releases \in Filesystems
    /\ readme \in {NoFile, File(OldReadme)}
    /\ base_ok = FALSE => (releases = EmptyDict /\ readme = NoFile)
    /\ pc = "start"
    /\ err = "none"
    /\ todo = {}
    /\ folder = <<>>
    /\ files_todo = {}
    /\ scanned = <<>>
    /\ data = EmptyDict
    /\ folders_data = <<>>
    /\ table = [headers |-> <<>>, rows |-> <<>>]
    /\ runs = 1
    /\ readme_before = readme
    /\ prev_out = NoFile
    /\ read_log = <<>>

\* README.md is opened for writing before the folders are loaded
Main_Start_truncating ==
    /\ pc = "start"
    /\ IF base_ok
       THEN /\ pc' = "loop"
            /\ todo' = (DOMAIN releases) \cup {<<"R", "E", "A", "D", "M", "E", ".", "m", "d">>}
            /\ err' = err
            /\ readme' = [exists |-> TRUE, lines |-> <<>>]
       ELSE /\ pc' = "error"
            /\ err' = "FileNotFoundError"
            /\ todo' = todo
            /\ readme' = readme
    /\ folders_data' = <<>>
    /\ UNCHANGED <<base_ok, releases, folder, files_todo, scanned, data,
                   table, runs, readme_before, prev_out, read_log>>

\* folders_data = {}; os.listdir(base_folder)
Main_Start ==
    /\ pc = "start"
    /\ IF base_ok
       THEN /\ pc' = "loop"
            /\ todo' = ListBase
            /\ err' = err
       ELSE /\ pc' = "error"
            /\ err' = "FileNotFoundError"
            /\ todo' = todo
    /\ folders_data' = <<>>
    /\ UNCHANGED <<base_ok, releases, readme, folder, files_todo, scanned, data,
                   table, runs, readme_before, prev_out, read_log>>

\* one iteration of 'for folder in os.listdir(base_folder)' up to the inner loop
Main_NextEntry ==
    /\ pc = "loop"
    /\ \E entry \in todo :
        /\ todo' = todo \ {entry}
        /\ IF isdir(entry)
           THEN /\ folder' = entry
                /\ data' = EmptyDict
                /\ files_todo' = releases[entry]
                /\ scanned' = <<>>
                /\ pc' = "files"
           ELSE UNCHANGED <<folder, data, files_todo, scanned, pc>>
    /\ UNCHANGED <<base_ok, releases, readme, err, folders_data, table, runs,
                   readme_before, prev_out, read_log>>

\* one iteration of 'for file in os.listdir(folder_path)'
Main_NextFile ==
    /\ pc = "files"
    /\ \E file \in files_todo :
        /\ scanned' = Append(scanned, file)
        /\ IF IsMetadata(file)
           THEN /\ read_log' = Append(read_log, <<folder, file>>)
                /\ LET file_data == read_data(file) IN
                   CASE file_data.kind = "error" ->
                          /\ pc' = "error"
                          /\ err' = "YAMLError"
                          /\ UNCHANGED <<data, files_todo>>
                     [] file_data.kind = "none" ->
                          /\ pc' = "error"
                          /\ err' = "TypeError"
                          /\ UNCHANGED <<data, files_todo>>
                     [] OTHER ->
                          /\ data' = Update(data, file_data.map)
                          /\ files_todo' = AfterBreak(files_todo \ {file})
                          /\ UNCHANGED <<pc, err>>
           ELSE /\ files_todo' = files_todo \ {file}
                /\ UNCHANGED <<data, pc, err, read_log>>
    /\ UNCHANGED <<base_ok, releases, readme, todo, folder, folders_data, table,
                   runs, readme_before, prev_out>>

\* the inner loop is over: folders_data[folder] = data
Main_EndFolder ==
    /\ pc = "files"
    /\ files_todo = {}
    /\ folders_data' = DictSet(folders_data, folder, data)
    /\ pc' = "loop"
    /\ folder' = <<>>
    /\ data' = EmptyDict
    /\ scanned' = <<>>
    /\ UNCHANGED <<base_ok, releases, readme, err, todo, files_todo, table, runs,
                   readme_before, prev_out, read_log>>

\* the outer loop is over: update_readme(folders_data)
Main_UpdateReadme ==
    /\ pc = "loop"
    /\ todo = {}
    /\ IF Raises(folders_data)
       THEN /\ pc' = "error"
            /\ err' = "TypeError"
            /\ UNCHANGED <<readme, table>>
       ELSE /\ pc' = "done"
            /\ readme' = WriteFile(readme,
                    <<S_Title>> \o [i \in 1..Len(new_table(folders_data)) |-> new_table(folders_data)[i].s])
            /\ table' = [headers |-> headers(folders_data),
                         rows |-> [i \in 1..Len(rows(folders_data)) |->
                                     [j \in 1..Len(rows(folders_data)[i]) |-> rows(folders_data)[i][j].s]]]
            /\ err' = err
    /\ UNCHANGED <<base_ok, releases, todo, folder, files_todo, scanned, data,
                   folders_data, runs, readme_before, prev_out, read_log>>

\* the process has ended and the script is invoked again over the same
\* release folders: nothing but the files on disk is carried over
Rerun ==
    /\ pc = "done"
    /\ runs < MaxRuns
    /\ runs' = runs + 1
    /\ pc' = "start"
    /\ readme_before' = readme
    /\ prev_out' = readme
    /\ read_log' = <<>>
    /\ table' = [headers |-> <<>>, rows |-> <<>>]
    /\ folders_data' = <<>>
    /\ UNCHANGED <<base_ok, releases, readme, err, todo, folder, files_todo, scanned,
                   data>>

Next ==
    \/ Main_Start
    \/ Main_NextEntry
    \/ Main_NextFile
    \/ Main_EndFolder
    \/ Main_UpdateReadme
    \/ Rerun

Spec == Init /\ [][Next]_vars

(* ------------------------------ claims -------------------------------- *)

Preferred == <<S_Description, S_Version, S_Language, S_Creator>>

\* the records passed to update_readme
Records == {folders_data[i].val : i \in 1..Len(folders_data)}

InSomeRecord(key) == \E d \in Records : key \in DOMAIN d

PreferredIndex(key) == CHOOSE p \in 1..Len(Preferred) : Preferred[p] = key

\* C1: the header columns are 'Folder Name' followed by exactly those keys of
\* [Description, Version, Language, Creator] that occur in at least one
\* record, in that order; no other metadata key is ever a column.
C1_HeaderColumns ==
    pc = "done" =>
        LET h == table.headers IN
        /\ Len(h) >= 1
        /\ h[1] = S_FolderName
        /\ \A i \in 2..Len(h) :
              /\ \E p \in 1..Len(Preferred) : h[i] = Preferred[p]
              /\ InSomeRecord(h[i])
        /\ \A p \in 1..Len(Preferred) :
              InSomeRecord(Preferred[p]) => \E i \in 2..Len(h) : h[i] = Preferred[p]
        /\ \A i, j \in 2..Len(h) :
              i < j => PreferredIndex(h[i]) < PreferredIndex(h[j])
        /\ \A i \in 2..Len(h) : h[i] \notin {S_Editor, S_Status, S_Foo}
        /\ readme.lines[2] = S_Open \o Join(S_Sep, StrObjs(h)).s \o S_Close

\* a table whose records hold Editor, Status and Foo keys and no Description
C1_Witness ==
    /\ pc = "done"
    /\ table.headers = <<S_FolderName, S_Version, S_Creator>>
    /\ InSomeRecord(S_Editor) /\ InSomeRecord(S_Status) /\ InSomeRecord(S_Foo)

\* C2: a preferred column present in no record contributes no cell to any
\* row: every data row has exactly as many cells as the header row.
C2_RowWidth ==
    pc = "done" => \A i \in 1..Len(table.rows) : Len(table.rows[i]) = Len(table.headers)

Ascending(names) == \A i \in 1..(Len(names) - 1) : StrLess(names[i], names[i + 1])

\* C3: whatever the order of enumeration, the written table has exactly one
\* data row per subdirectory, in strictly ascending order of folder name.
C3_SortedRows ==
    pc = "done" =>
        /\ Len(table.rows) = Cardinality(DOMAIN releases)
        /\ {table.rows[i][1] : i \in 1..Len(table.rows)} = DOMAIN releases
        /\ Ascending([i \in 1..Len(table.rows) |-> table.rows[i][1]])
        /\ Len(readme.lines) = 3 + Len(table.rows)
        /\ \A i \in 1..Len(table.rows) :
              readme.lines[3 + i] = S_Open \o Join(S_Sep, StrObjs(table.rows[i])).s \o S_Close

\* three folders enumerated in descending order come out as B, a, ab
C3_Witness ==
    /\ pc = "done"
    /\ Keys(folders_data) = <<<<"a", "b">>, <<"a">>, <<"B">>>>
    /\ [i \in 1..Len(table.rows) |-> table.rows[i][1]] = <<<<"B">>, <<"a">>, <<"a", "b">>>>

\* C4: a run that ends with a read or parse error while loading leaves
\* README.md exactly as it was when the run started.
C4_NoWriteOnLoadError ==
    (pc = "error" /\ err \in {"FileNotFoundError", "YAMLError"}) => readme = readme_before

\* a second run hits the malformed file after another folder was loaded
C4_Witness ==
    /\ pc = "error"
    /\ err = "YAMLError"
    /\ runs = 2
    /\ Len(folders_data) >= 1
    /\ readme.exists
    /\ Len(readme.lines) >= 4

Record(f) == Lookup(folders_data, f)

TextOf(d, key) == IF key \in DOMAIN d THEN PyStr(d[key]).s ELSE <<>>

\* C5: the Description cell is the Description value (empty when absent)
\* followed by '<br>[Web editor](<Editor>)' when the record has an Editor
\* key, and by nothing when it has none.
C5_DescriptionCell ==
    pc = "done" =>
        \A i \in 1..Len(table.rows) :
            LET d == Record(table.rows[i][1])
                base == IF S_Description \in DOMAIN d THEN d[S_Description].s ELSE <<>>
            IN  IF S_Editor \in DOMAIN d
                THEN table.rows[i][2] = base \o S_WebEditor \o d[S_Editor].s \o <<")">>
                ELSE table.rows[i][2] = base

\* one table with all four combinations of Description and Editor
C5_Witness ==
    /\ pc = "done"
    /\ \E i \in 1..Len(table.rows) :
          table.rows[i][2] = <<"B", "<", "b", "r", ">", "[", "W", "e", "b", " ",
                               "e", "d", "i", "t", "o", "r", "]", "(", "e", ")">>
    /\ \E i \in 1..Len(table.rows) :
          /\ table.rows[i][2] = <<"A">>
          /\ S_Editor \notin DOMAIN Record(table.rows[i][1])
    /\ \E i \in 1..Len(table.rows) :
          /\ table.rows[i][2] = <<>>
          /\ Record(table.rows[i][1]) = EmptyDict

\* C6: the Version cell is the string form of the Version value (empty when
\* absent, 2 renders as '2') followed by '<br><Status>' when the record has
\* a Status key, and by nothing when it has none.
C6_VersionCell ==
    pc = "done" =>
        \A i \in 1..Len(table.rows) :
            LET d == Record(table.rows[i][1])
                base == TextOf(d, S_Version)
            IN  /\ IF S_Status \in DOMAIN d
                   THEN table.rows[i][3] = base \o S_Br \o d[S_Status].s
                   ELSE table.rows[i][3] = base
                /\ (S_Version \in DOMAIN d /\ d[S_Version] = IntObj(2)) => base = <<"2">>
                /\ (S_Version \in DOMAIN d /\ d[S_Version] = IntObj(10)) => base = <<"1", "0">>

\* a numeric Version without Status next to a numeric Version with Status
C6_Witness ==
    /\ pc = "done"
    /\ \E i \in 1..Len(table.rows) :
          /\ table.rows[i][3] = <<"2">>
          /\ Record(table.rows[i][1])[S_Version] = IntObj(2)
    /\ \E i \in 1..Len(table.rows) :
          table.rows[i][3] = <<"1", "0", "<", "b", "r", ">", "t">>
    /\ \E i \in 1..Len(table.rows) :
          /\ table.rows[i][3] = <<>>
          /\ Record(table.rows[i][1]) = EmptyDict

Dashes(h) == [i \in 1..Len(h) |-> Repeat(<<"-">>, Len(h[i]))]

Line(cells) == S_Open \o Join(S_Sep, StrObjs(cells)).s \o S_Close

\* C7: after a successful run README.md is the title line, the header line,
\* the divider line and the data rows, whatever it held before; a further
\* run over the same folders leaves the same content, and README.md itself
\* never becomes a row.
C7_FullReplacement ==
    pc = "done" =>
        /\ readme.exists
        /\ readme.lines = <<S_Title, Line(table.headers), Line(Dashes(table.headers))>>
                           \o [i \in 1..Len(table.rows) |-> Line(table.rows[i])]
        /\ \A i \in 1..Len(table.rows) : table.rows[i][1] # S_README
        /\ runs >= 2 => readme = prev_out

\* a second successful run over a README.md that the first run wrote
C7_Witness ==
    /\ pc = "done"
    /\ runs = 2
    /\ Len(table.rows) >= 2
    /\ prev_out.exists
    /\ Len(table.headers) >= 3

WasRead(f, file) == \E k \in 1..Len(read_log) : read_log[k] = <<f, file>>

NameIsMetadata(name) == EndsWith(name, <<".", "y", "a", "m", "l">>) \/ EndsWith(name, <<".", "y", "m", "l">>)

\* C8: a folder record comes from at most one metadata file: the first entry
\* ending in '.yaml' or '.yml' is read and the scan stops; the record is the
\* content of exactly one file, never a merge, and other entries add no key.
C8_OneMetadataFile ==
    /\ \A k, l \in 1..Len(read_log) : read_log[k][1] = read_log[l][1] => k = l
    /\ \A k \in 1..Len(read_log) :
          /\ NameIsMetadata(read_log[k][2])
          /\ read_log[k][2] \in releases[read_log[k][1]]
    /\ pc = "files" =>
          /\ \A k \in 1..(Len(scanned) - 1) : ~NameIsMetadata(scanned[k])
          /\ (Len(scanned) >= 1 /\ NameIsMetadata(scanned[Len(scanned)])) =>
                /\ WasRead(folder, scanned[Len(scanned)])
                /\ files_todo = {}
                /\ data = SafeLoad(scanned[Len(scanned)]).map
    /\ \A i \in 1..Len(folders_data) :
          LET f == folders_data[i].key
              d == folders_data[i].val
          IN  \/ \E file \in releases[f] :
                   /\ NameIsMetadata(file)
                   /\ WasRead(f, file)
                   /\ d = SafeLoad(file).map
              \/ /\ d = EmptyDict
                 /\ \A file \in releases[f] : ~NameIsMetadata(file)

\* a folder holding two metadata files was loaded from one of them
C8_Witness ==
    /\ pc = "loop"
    /\ \E i \in 1..Len(folders_data) :
          /\ releases[folders_data[i].key] = {N_x, N_y}
          /\ folders_data[i].val = SafeLoad(N_y).map

\* C9: a subdirectory without a metadata file gets an empty record and a row
\* whose first cell is the folder name and whose other cells are all empty.
C9_EmptyRow ==
    pc = "done" =>
        \A f \in DOMAIN releases :
            (\A file \in releases[f] : ~NameIsMetadata(file)) =>
                /\ Record(f) = EmptyDict
                /\ \E i \in 1..Len(table.rows) :
                      table.rows[i] = <<f, <<>>, <<>>, <<>>, <<>>>>

\* a folder holding only n.txt, next to a folder with metadata
C9_Witness ==
    /\ pc = "done"
    /\ \E f \in DOMAIN releases : releases[f] = {N_n}
    /\ \E i \in 1..Len(table.rows) : table.rows[i] = <<<<"a">>, <<>>, <<>>, <<>>, <<>>>>
    /\ Len(table.headers) >= 2

\* every metadata file is empty or a mapping from keys to strings or numbers
WellFormedInput ==
    /\ base_ok
    /\ \A f \in DOMAIN releases : \A file \in releases[f] :
          NameIsMetadata(file) => SafeLoad(file).kind \in {"none", "map"}

\* C10: on well-formed input (empty metadata files, numeric values) the run
\* never aborts.
C10_WellFormedCompletes == WellFormedInput => pc # "error"

====
